---- MODULE Spec2Model ----
(***************************************************************************)
(* pixum: the `source` handler GET /:work_id/:index of src/routes/work.rs. *)
(* Concurrent requests share one Redis cache; the upstream (Pixiv) and the *)
(* cache server answer each call nondeterministically.                     *)
(***************************************************************************)
EXTENDS Integers, Sequences, FiniteSets, TLC

\* ---------------------------------------------------------------- bounds
NumReq == 2
MaxIndex == 2
MaxEntries == 3

\* main.rs 68-71 configures buffer(100), rate_limit(50, 10 s) and
\* concurrency_limit(100); the model keeps the structure and scales the sizes
BufferBound == 2
RateNum == 2
ConcurrencyLimit == 2

\* u16 arithmetic of num_entries and index
U16Mod == 65536

Requests == 1..NumReq
WorkIds == {123}
Indices == 0..MaxIndex
EntryCounts == 0..MaxEntries

\* ------------------------------------------------------------------ URLs
\* A Pixiv image URL  https://i.pximg.net/<dir>/img/.../<id>_p<page><sfx>.<ext>
Exts == <<"jpg", "png", "gif">>
ExtSet == {Exts[i] : i \in 1..Len(Exts)}

MasterDir == "c/250x250_80_a2/img-master"
CustomDir == "c/250x250_80_a2/custom-thumb"
OriginalDir == "img-original"

NoUrl == [dir |-> "", id |-> 0, page |-> 0, sfx |-> "", ext |-> ""]

\* urls.original of the metadata: the first image of the work
Originals == {[dir |-> OriginalDir, id |-> w, page |-> 0, sfx |-> "", ext |-> e] :
                w \in WorkIds, e \in ExtSet}

\* userIllusts[work_id].url of the metadata: a thumbnail of the first image
Thumbs == {[dir |-> d, id |-> w, page |-> 0, sfx |-> s, ext |-> "jpg"] :
             d \in {MasterDir, CustomDir}, w \in WorkIds,
             s \in {"_square1200", "_custom1200"}}

ReplaceDir(u, from, to) == IF u.dir = from THEN [u EXCEPT !.dir = to] ELSE u

ReplaceSfx(u, from, to) == IF u.sfx = from THEN [u EXCEPT !.sfx = to] ELSE u

\* work.rs 184-194: the four .replace() calls on the thumbnail URL
DeriveTargetLink(u) ==
  ReplaceSfx(ReplaceSfx(ReplaceDir(ReplaceDir(u, MasterDir, OriginalDir),
                                   CustomDir, OriginalDir),
                        "_square1200", ""),
             "_custom1200", "")

\* work.rs 275-278: url.replace("{work_id}_p0", "{work_id}_p{index-1}")
ReplacePage(u, work_id, index) ==
  IF u.id = work_id /\ u.page = 0 THEN [u EXCEPT !.page = index - 1] ELSE u

\* work.rs 285-288: StdPath::with_extension
WithExtension(u, e) == [u EXCEPT !.ext = e]

\* work.rs 152, 180, 206: mime_guess::from_path(..).first_or_octet_stream()
MimeGuess(u) ==
  CASE u.ext = "jpg" -> "image/jpeg"
    [] u.ext = "png" -> "image/png"
    [] u.ext = "gif" -> "image/gif"
    [] OTHER -> "application/octet-stream"

\* ------------------------------------------------------------- upstream
Statuses == {"OK", "NOT_FOUND", "OTHER", "SEND_ERR"}

\* work.rs 315-329: fetch_image
FetchImage(s) ==
  CASE s = "SEND_ERR" -> "Internal"
    [] s = "OK" -> "Ok"
    [] s = "NOT_FOUND" -> "WrongArtworkUrl"
    [] OTHER -> "ArtworkUnavailable"

\* work.rs 254: .map_err(|_| AppError::Internal)
MapErrInternal(res) == IF res = "Ok" THEN "Ok" ELSE "Internal"

\* work.rs 42-53: the "body" member of a metadata document is an array of
\* nulls, an object with the members of WorkInfo, or anything else
Bodies == {"units", "workinfo", "other"}

\* what the upstream answers to the metadata request: nothing (send fails),
\* bytes that are no JSON document with "error" and "body", or a document
NoMeta == [kind |-> "none", error |-> FALSE, body |-> "none"]
SendErr == [kind |-> "send_err", error |-> FALSE, body |-> "none"]
Malformed == [kind |-> "malformed", error |-> FALSE, body |-> "none"]
Documents == {[kind |-> "json", error |-> e, body |-> b] : e \in BOOLEAN, b \in Bodies}
MetaOutcomes == {SendErr, Malformed} \cup Documents

\* work.rs 42-47: #[serde(untagged)] enum BodyData { Error(Vec<()>),
\* Success(WorkInfo) }: the variants are tried in this order, and a body that
\* matches neither fails the deserialization
BodyData(b) ==
  CASE b = "units" -> "Error"
    [] b = "workinfo" -> "Success"
    [] OTHER -> "none"

\* work.rs 212-231: fetch_work_info, by what the upstream answered
WorkInfoResult(out) ==
  IF out.kind = "send_err" THEN "Internal"
  ELSE IF out.kind = "malformed" \/ BodyData(out.body) = "none"
    THEN "ServerUnreachable"
  ELSE IF out.error THEN "ArtworkUnavailable"
  ELSE IF BodyData(out.body) = "Success" THEN "Ok"
  ELSE "ArtworkUnavailable"

\* u16 subtraction of a release build (wrapping)
Sub16(a, b) == (a - b + U16Mod) % U16Mod

\* the check without the off-by-one correction of num_entries
TooHighUncorrected(index, num_entries) == index > num_entries

\* no upper-bound check at all
TooHighNever(index, num_entries) == FALSE

\* work.rs 171: index > data.num_entries - 1
TooHigh(index, num_entries) == index > Sub16(num_entries, 1)

\* -------------------------------------------------------------- cache
\* every key a request can name; the handler uses those of index >= 1
Keys == WorkIds \X Indices

\* work.rs 141: format!("{work_id}_{index}")
CacheKey(work_id, index) == <<work_id, index>>

\* ttl: the reply of the cache server's TTL command, in seconds; -2 for a key
\* that does not exist, -1 for a key without expiry
NoEntry == [url |-> NoUrl, ttl |-> -2]

\* work.rs 260, 301: Cmd::set(key, url), a SET with no expiry
SetEntry(u) == [url |-> u, ttl |-> -1]

\* ------------------------------------------------------------- requests
NoProbes == [e \in ExtSet |-> "idle"]
Pending == [e \in ExtSet |-> "pending"]

NoResult == [kind |-> "none", max |-> 0, data |-> NoUrl]

\* what the text of a response says of the collection: a number of images,
\* and the noun it uses
NoMessage == [images |-> -1, noun |-> "none"]

\* lib.rs 79-89: the text rendered for TooHighQuery { max }
TooHighMessage(max) ==
  IF max > 1 THEN [images |-> max, noun |-> "images"]
             ELSE [images |-> 1, noun |-> "image"]

Idle ==
  [pc |-> "idle", work_id |-> 0, index |-> 0, conn |-> FALSE,
   link |-> NoUrl, url_known |-> FALSE, update_cache |-> FALSE,
   url |-> NoUrl, status |-> "none", probes |-> NoProbes, first |-> "none",
   resolved |-> NoUrl, body |-> FALSE, num_entries |-> -1, hit |-> FALSE, stored |-> FALSE,
   meta |-> NoMeta, ops |-> {}, failed |-> {}, result |-> NoResult, mime |-> "none",
   message |-> NoMessage]

\* --------------------------------------------------- admission control
\* main.rs 24-36: the routes whose handlers are the orchestrations. Router::layer
\* wraps every route of the router in the layer, so each route has its own
\* instance of the stack of main.rs 62-71
Routes == {"source", "info"}

\* lib.rs 48-57
AppErrors == {"InvalidUrl", "ArtworkUnavailable", "WrongArtworkUrl",
              "ServerUnreachable", "ZeroQuery", "TooHighQuery", "Internal"}

\* lib.rs 59-98: the status code of into_response; 200 for a success
StatusCode(kind) ==
  CASE kind = "Ok" -> 200
    [] kind \in {"InvalidUrl", "ArtworkUnavailable", "WrongArtworkUrl"} -> 404
    [] kind = "ServerUnreachable" -> 502
    [] kind \in {"ZeroQuery", "TooHighQuery"} -> 400
    [] kind = "Internal" -> 500

\* main.rs 62-64: StatusCode::TOO_MANY_REQUESTS
TooManyRequests == 429

\* what a handler can return: work.rs 72-103 (info), 112-124 (source)
HandlerResults(route) ==
  IF route = "info"
    THEN {"Ok", "InvalidUrl", "ArtworkUnavailable", "ServerUnreachable", "Internal"}
    ELSE {"Ok"} \cup (AppErrors \ {"WrongArtworkUrl"})

NoSignal == [cause |-> "none", status |-> 0]

\* the stack of one route: requests waiting in the buffer, calls left in the
\* rate window, permits of the semaphore, handlers in flight
NewStack ==
  [buffered |-> 0, rem |-> RateNum, permits |-> ConcurrencyLimit, running |-> 0]

VARIABLES req, cache, mw, signal

vars == <<req, cache, mw, signal>>

Init ==
  /\ req = [r \in Requests |-> Idle]
  /\ cache = [k \in Keys |-> NoEntry]
  /\ mw = [route \in Routes |-> NewStack]
  /\ signal = NoSignal

KeyOf(r) == CacheKey(req[r].work_id, req[r].index)

Err(kind) == [kind |-> kind, max |-> 0, data |-> NoUrl]

\* the request ends: its record keeps what it did, and holds the response.
\* work.rs 152, 180, 206: the Content-Type of a success is guessed from the
\* link get_image_data holds (the cached URL, urls.original, or target_link).
\* lib.rs 79-89: the text of TooHighQuery
Finish(rec, res) ==
  [rec EXCEPT !.pc = "done", !.result = res,
              !.mime = IF res.kind = "Ok" THEN MimeGuess(rec.link) ELSE "none",
              !.message = IF res.kind = "TooHighQuery" THEN TooHighMessage(res.max)
                                                       ELSE NoMessage]

\* work.rs 112-116 and axum's Path extractor: a request arrives
Start(r, I) ==
  /\ req[r].pc = "idle"
  /\ \E parsed \in BOOLEAN, w \in WorkIds, i \in I :
       req' = [req EXCEPT ![r] =
                 IF parsed
                   THEN [Idle EXCEPT !.pc = "pool", !.work_id = w, !.index = i]
                   ELSE Finish(Idle, Err("InvalidUrl"))]
  /\ UNCHANGED <<cache, mw, signal>>

\* the handler without its index = 0 check
PoolGetNoZeroCheck(r) ==
  /\ req[r].pc = "pool"
  /\ \E ok \in BOOLEAN :
       req' = [req EXCEPT ![r] =
                 IF ~ok THEN Finish(@, Err("Internal"))
                 ELSE [@ EXCEPT !.conn = TRUE, !.pc = "get", !.ops = @ \cup {"get"}]]
  /\ UNCHANGED <<cache, mw, signal>>

\* work.rs 119-120 and 132-141: state.pool.get(), then the index check; the
\* cache lookup is issued
PoolGet(r) ==
  /\ req[r].pc = "pool"
  /\ \E ok \in BOOLEAN :
       req' = [req EXCEPT ![r] =
                 IF ~ok THEN Finish(@, Err("Internal"))
                 ELSE IF @.index = 0
                   THEN Finish([@ EXCEPT !.conn = TRUE], Err("ZeroQuery"))
                 ELSE [@ EXCEPT !.conn = TRUE, !.pc = "get", !.ops = @ \cup {"get"}]]
  /\ UNCHANGED <<cache, mw, signal>>

\* a lookup whose command failure fails the request
CacheGetFailing(r) ==
  /\ req[r].pc = "get"
  /\ \E ok \in BOOLEAN :
       LET e == cache[KeyOf(r)]
       IN req' = [req EXCEPT ![r] =
                    IF ~ok
                      THEN Finish([@ EXCEPT !.failed = @ \cup {"get"}], Err("Internal"))
                    ELSE IF e # NoEntry
                      THEN [@ EXCEPT !.pc = "known", !.hit = TRUE,
                                     !.link = e.url, !.url = e.url,
                                     !.url_known = TRUE, !.update_cache = FALSE,
                                     !.ops = @ \cup {"asset"}]
                      ELSE [@ EXCEPT !.pc = "meta", !.ops = @ \cup {"meta"}]]
  /\ UNCHANGED <<cache, mw, signal>>

\* work.rs 144-148 and 168: Cmd::get answers; a failed command or an absent
\* key is a miss. A hit fetches the cached URL, a miss fetches the metadata
CacheGet(r) ==
  /\ req[r].pc = "get"
  /\ \E ok \in BOOLEAN :
       LET e == cache[KeyOf(r)]
       IN req' = [req EXCEPT ![r] =
                    IF ok /\ e # NoEntry
                      THEN [@ EXCEPT !.pc = "known", !.hit = TRUE,
                                     !.link = e.url, !.url = e.url,
                                     !.url_known = TRUE, !.update_cache = FALSE,
                                     !.ops = @ \cup {"asset"}]
                      ELSE [@ EXCEPT !.pc = "meta", !.ops = @ \cup {"meta"},
                                     !.failed = IF ok THEN @ ELSE @ \cup {"get"}]]
  /\ UNCHANGED <<cache, mw, signal>>

\* the entry unlinked after any failed verify of a cached URL
CacheAfterAnyErr(r, err, cmdOk) ==
  IF req[r].hit /\ cmdOk
    THEN [cache EXCEPT ![KeyOf(r)] = NoEntry]
    ELSE cache

\* work.rs 155-163: the Err arm of the cache-hit match; the unlink command
\* may itself fail
CacheAfterKnownErr(r, err, cmdOk) ==
  IF req[r].hit /\ err = "WrongArtworkUrl" /\ cmdOk
    THEN [cache EXCEPT ![KeyOf(r)] = NoEntry]
    ELSE cache

OpsAfterKnownErr(r, err) ==
  IF req[r].hit /\ err = "WrongArtworkUrl" THEN {"unlink"} ELSE {}

FailedAfterKnownErr(r, err, cmdOk) ==
  IF req[r].hit /\ err = "WrongArtworkUrl" /\ ~cmdOk THEN {"unlink"} ELSE {}

\* work.rs 251-254: fetch_image on the known URL, every error mapped
KnownFetchResult(s) == MapErrInternal(FetchImage(s))

\* work.rs 251-254: the response to the fetch of the known URL arrives
FetchKnown(r) ==
  /\ req[r].pc = "known"
  /\ \E s \in Statuses, cmdOk \in BOOLEAN :
       LET res == KnownFetchResult(s)
           rec == [req[r] EXCEPT !.status = s]
       IN IF res = "Ok"
            THEN /\ req' = [req EXCEPT ![r] =
                              [rec EXCEPT !.pc = "bytes", !.resolved = rec.url]]
                 /\ UNCHANGED cache
            ELSE /\ req' = [req EXCEPT ![r] =
                              Finish([rec EXCEPT !.ops = @ \cup OpsAfterKnownErr(r, res),
                                                 !.failed = @ \cup
                                                   FailedAfterKnownErr(r, res, cmdOk)],
                                     Err(res))]
                 /\ cache' = CacheAfterKnownErr(r, res, cmdOk)
  /\ UNCHANGED <<mw, signal>>

\* the URL cached whether or not its body could be read
BytesKnownUnchecked(r) ==
  /\ req[r].pc = "bytes"
  /\ req[r].url_known
  /\ \E ok \in BOOLEAN :
       req' = [req EXCEPT ![r] =
                 IF @.update_cache
                   THEN [@ EXCEPT !.pc = "set", !.body = ok, !.ops = @ \cup {"set"}]
                   ELSE Finish([@ EXCEPT !.body = ok],
                               [kind |-> "Ok", max |-> 0, data |-> @.url])]
  /\ UNCHANGED <<cache, mw, signal>>

\* work.rs 255-271: .bytes() of the known URL's response
BytesKnown(r) ==
  /\ req[r].pc = "bytes"
  /\ req[r].url_known
  /\ \E ok \in BOOLEAN, cmdOk \in BOOLEAN :
       IF ok
         THEN /\ req' = [req EXCEPT ![r] =
                           IF @.update_cache
                             THEN [@ EXCEPT !.pc = "set", !.body = TRUE,
                                            !.ops = @ \cup {"set"}]
                             ELSE Finish([@ EXCEPT !.body = TRUE],
                                         [kind |-> "Ok", max |-> 0, data |-> @.url])]
              /\ UNCHANGED cache
         ELSE /\ req' = [req EXCEPT ![r] =
                           Finish([@ EXCEPT !.ops = @ \cup OpsAfterKnownErr(r, "Internal"),
                                            !.failed = @ \cup
                                              FailedAfterKnownErr(r, "Internal", cmdOk)],
                                  Err("Internal"))]
              /\ cache' = CacheAfterKnownErr(r, "Internal", cmdOk)
  /\ UNCHANGED <<mw, signal>>

\* work.rs 258-268: Cmd::set of the known URL answers, its failure ignored
CacheSetKnown(r) ==
  /\ req[r].pc = "set"
  /\ req[r].url_known
  /\ \E ok \in BOOLEAN :
       /\ cache' = IF ok THEN [cache EXCEPT ![KeyOf(r)] = SetEntry(req[r].url)]
                         ELSE cache
       /\ req' = [req EXCEPT ![r] =
                    Finish([@ EXCEPT !.stored = ok,
                                     !.failed = IF ok THEN @ ELSE @ \cup {"set"}],
                           [kind |-> "Ok", max |-> 0, data |-> @.url])]
  /\ UNCHANGED <<mw, signal>>

\* work.rs 170-207 and 275-291: what get_image_data does with the WorkInfo, up
\* to the asset fetch it issues. overflow: what the build does with 0 - 1
AfterWorkInfo(rec, n, orig, illust, overflow) ==
  LET got == [rec EXCEPT !.num_entries = n]
  IN IF n = 0 /\ overflow = "panic"
       THEN Finish(got, Err("Panic"))
     ELSE IF TooHigh(rec.index, n)
       THEN Finish(got, [kind |-> "TooHighQuery", max |-> Sub16(n, 1), data |-> NoUrl])
     ELSE IF orig # NoUrl
       THEN [got EXCEPT !.pc = "known", !.link = orig, !.url = orig,
                        !.url_known = TRUE, !.update_cache = TRUE,
                        !.ops = @ \cup {"asset"}]
     ELSE IF illust \notin Thumbs
       THEN Finish(got, Err("ArtworkUnavailable"))
     ELSE LET target_link == DeriveTargetLink(illust)
          IN [got EXCEPT !.pc = "probe", !.link = target_link,
                         !.url = ReplacePage(target_link, rec.work_id, rec.index),
                         !.url_known = FALSE, !.update_cache = TRUE,
                         !.probes = Pending, !.ops = @ \cup {"asset"}]

\* userIllusts[work_id]: a thumbnail, null, or no such key
NullIllust == [dir |-> "null", id |-> 0, page |-> 0, sfx |-> "", ext |-> ""]
NoIllust == [dir |-> "absent", id |-> 0, page |-> 0, sfx |-> "", ext |-> ""]
Illusts == Thumbs \cup {NullIllust, NoIllust}

\* work.rs 168 and 212-231: the metadata document arrives
FetchWorkInfo(r) ==
  /\ req[r].pc = "meta"
  /\ \E out \in MetaOutcomes :
       IF WorkInfoResult(out) # "Ok"
         THEN req' = [req EXCEPT ![r] =
                        Finish([@ EXCEPT !.meta = out], Err(WorkInfoResult(out)))]
         ELSE \E n \in EntryCounts, orig \in Originals \cup {NoUrl} :
                \E illust \in (IF orig = NoUrl THEN Illusts ELSE {NoIllust}),
                   overflow \in (IF n = 0 THEN {"wrap", "panic"} ELSE {"wrap"}) :
                  req' = [req EXCEPT ![r] =
                            AfterWorkInfo([@ EXCEPT !.meta = out], n, orig, illust,
                                          overflow)]
  /\ UNCHANGED <<cache, mw, signal>>

\* work.rs 284-292: one of the three probes of join_all completes
ProbeComplete(r) ==
  /\ req[r].pc = "probe"
  /\ \E e \in ExtSet, s \in Statuses :
       /\ req[r].probes[e] = "pending"
       /\ req' = [req EXCEPT ![r] =
                    [@ EXCEPT !.probes[e] = IF FetchImage(s) = "Ok" THEN "ok" ELSE "err",
                              !.first = IF @ = "none" /\ FetchImage(s) = "Ok"
                                          THEN e ELSE @]]
  /\ UNCHANGED <<cache, mw, signal>>

Min(S) == CHOOSE x \in S : \A y \in S : x <= y

\* the first extension of the array taken whenever some probe succeeded
FindMapFirstExt(p) ==
  IF \A e \in ExtSet : p[e] # "ok" THEN "none" ELSE Exts[1]

\* work.rs 293-294: .into_iter().find_map(Result::ok) over the results, which
\* join_all returns in the order of the array
FindMapOk(p) ==
  LET I == {i \in 1..Len(Exts) : p[Exts[i]] = "ok"}
  IN IF I = {} THEN "none" ELSE Exts[Min(I)]

\* a select-style join: ready at the first success
JoinReadyAtFirstOk(p) ==
  \/ \E e \in ExtSet : p[e] = "ok"
  \/ \A e \in ExtSet : p[e] # "pending"

\* work.rs 292: join_all is ready when every future has completed
JoinReady(p) == \A e \in ExtSet : p[e] # "pending"

\* work.rs 284-296 and 310-312: join_all returns; the response is chosen.
\* response.url() is the URL that was requested (the image host answers
\* without redirecting)
ProbeJoin(r) ==
  /\ req[r].pc = "probe"
  /\ JoinReady(req[r].probes)
  /\ LET e == FindMapOk(req[r].probes)
     IN req' = [req EXCEPT ![r] =
                  IF e = "none"
                    THEN Finish(@, Err("ArtworkUnavailable"))
                    ELSE [@ EXCEPT !.pc = "bytes",
                                   !.resolved = WithExtension(req[r].url, e)]]
  /\ UNCHANGED <<cache, mw, signal>>

\* work.rs 297: .bytes() of the chosen response
BytesProbed(r) ==
  /\ req[r].pc = "bytes"
  /\ ~req[r].url_known
  /\ \E ok \in BOOLEAN :
       req' = [req EXCEPT ![r] =
                 IF ok THEN [@ EXCEPT !.pc = "set", !.body = TRUE,
                                      !.ops = @ \cup {"set"}]
                       ELSE Finish(@, Err("Internal"))]
  /\ UNCHANGED <<cache, mw, signal>>

\* the candidate link cached in place of the URL that answered
CacheSetProbedCandidate(r) ==
  /\ req[r].pc = "set"
  /\ ~req[r].url_known
  /\ \E ok \in BOOLEAN :
       /\ cache' = IF ok THEN [cache EXCEPT ![KeyOf(r)] = SetEntry(req[r].link)]
                         ELSE cache
       /\ req' = [req EXCEPT ![r] =
                    Finish([@ EXCEPT !.stored = ok,
                                     !.failed = IF ok THEN @ ELSE @ \cup {"set"}],
                           [kind |-> "Ok", max |-> 0, data |-> @.resolved])]
  /\ UNCHANGED <<mw, signal>>

\* work.rs 299-309: Cmd::set of the probed URL answers, its failure ignored
CacheSetProbed(r) ==
  /\ req[r].pc = "set"
  /\ ~req[r].url_known
  /\ \E ok \in BOOLEAN :
       /\ cache' = IF ok THEN [cache EXCEPT ![KeyOf(r)] = SetEntry(req[r].resolved)]
                         ELSE cache
       /\ req' = [req EXCEPT ![r] =
                    Finish([@ EXCEPT !.stored = ok,
                                     !.failed = IF ok THEN @ ELSE @ \cup {"set"}],
                           [kind |-> "Ok", max |-> 0, data |-> @.resolved])]
  /\ UNCHANGED <<mw, signal>>

\* the response is sent; the handler's state is dropped
Respond(r) ==
  /\ req[r].pc = "done"
  /\ req' = [req EXCEPT ![r] = Idle]
  /\ UNCHANGED <<cache, mw, signal>>

\* one step of the handler of request r, its index drawn from I
Step(r, I) ==
  \/ Start(r, I)
  \/ PoolGet(r)
  \/ CacheGet(r)
  \/ FetchKnown(r)
  \/ BytesKnown(r)
  \/ CacheSetKnown(r)
  \/ FetchWorkInfo(r)
  \/ ProbeComplete(r)
  \/ ProbeJoin(r)
  \/ BytesProbed(r)
  \/ CacheSetProbed(r)
  \/ Respond(r)

\* requests served one after another, over every index
Next == Step(1, Indices)

Spec == Init /\ [][Next]_vars

\* NumReq requests in flight at once, all for the same cache key
NextConc == \E r \in Requests : Step(r, {MaxIndex})

SpecConc == Init /\ [][NextConc]_vars

\* -------------------------------------------- the stack of main.rs 62-71
\* main.rs 68: a request is sent into the buffer of its route; with the
\* buffer full the caller waits
BufferSend(route) ==
  /\ mw[route].buffered < BufferBound
  /\ mw' = [mw EXCEPT ![route].buffered = @ + 1]
  /\ UNCHANGED <<req, cache, signal>>

\* main.rs 69-71: the worker of the buffer finds the stack ready (a call is
\* left in the rate window and the semaphore has a permit) and calls it: the
\* handler starts, holding the permit
WorkerDispatch(route) ==
  /\ mw[route].buffered > 0
  /\ mw[route].rem > 0
  /\ mw[route].permits > 0
  /\ mw' = [mw EXCEPT ![route] =
               [@ EXCEPT !.buffered = @ - 1, !.rem = @ - 1, !.permits = @ - 1,
                         !.running = @ + 1]]
  /\ UNCHANGED <<req, cache, signal>>

\* main.rs 69: the rate window of 10 s is over
RateWindowReset(route) ==
  /\ mw[route].rem < RateNum
  /\ mw' = [mw EXCEPT ![route].rem = RateNum]
  /\ UNCHANGED <<req, cache, signal>>

\* a handler returns within the budget: its response (lib.rs 59-98) passes
\* the stack unchanged, and the permit is released
HandlerReturn(route) ==
  /\ mw[route].running > 0
  /\ \E kind \in HandlerResults(route) :
       signal' = [cause |-> kind, status |-> StatusCode(kind)]
  /\ mw' = [mw EXCEPT ![route] = [@ EXCEPT !.running = @ - 1, !.permits = @ + 1]]
  /\ UNCHANGED <<req, cache>>

\* main.rs 62-64 and 70: the 15 s of the timeout elapse before the handler
\* returns. The handler's future is dropped with its permit, and HandleErrorLayer
\* turns the error of the stack into a response
TimeoutElapsed(route) ==
  /\ mw[route].running > 0
  /\ signal' = [cause |-> "timeout", status |-> TooManyRequests]
  /\ mw' = [mw EXCEPT ![route] = [@ EXCEPT !.running = @ - 1, !.permits = @ + 1]]
  /\ UNCHANGED <<req, cache>>

NextStack ==
  \E route \in Routes :
    \/ BufferSend(route)
    \/ WorkerDispatch(route)
    \/ RateWindowReset(route)
    \/ HandlerReturn(route)
    \/ TimeoutElapsed(route)

SpecStack == Init /\ [][NextStack]_vars

\* ---------------------------------------------------------------- claims
Done(r) == req[r].pc = "done"

\* the request's path parameters parsed
Parsed(r) == req[r].work_id \in WorkIds

\* the request verified a cached URL and the upstream answered 404
StaleHit(r) == Done(r) /\ req[r].hit /\ req[r].status = "NOT_FOUND"

\* the request took the probing path of fetch_image_data
Probing(r) == Parsed(r) /\ ~req[r].url_known /\ req[r].link # NoUrl

OkExts(r) == {e \in ExtSet : req[r].probes[e] = "ok"}

\* C1: a cache hit whose verify-fetch answers 404 does not end the request
\* with an error: the request goes on to fetch the metadata
C1_StaleHitResolvedFresh ==
  \A r \in Requests :
    StaleHit(r) => "meta" \in req[r].ops /\ req[r].result.kind # "Internal"

\* C2: once the 404 of a verify-fetch has been handled, the key is absent
\* from the cache
C2_StaleEntryInvalidated ==
  \A r \in Requests : StaleHit(r) => cache[KeyOf(r)] = NoEntry

\* the request holds a response with status OK to the fetch of u, and has
\* read its body
Verified(r, u) ==
  /\ req[r].body
  /\ req[r].resolved = u
  /\ IF req[r].url_known
       THEN req[r].status = "OK" /\ req[r].url = u
       ELSE \E e \in ExtSet : req[r].probes[e] = "ok" /\ u = WithExtension(req[r].url, e)

\* C3: whenever a cache entry is written, under any interleaving of requests
\* for the same key, the writer has fetched the written URL with status OK and
\* has read the body
C3_WrittenUrlVerified ==
  [][\A k \in Keys :
       (cache'[k] # cache[k] /\ cache'[k] # NoEntry)
         => \E r \in Requests :
              /\ req[r].pc = "set"
              /\ KeyOf(r) = k
              /\ req'[r].pc = "done"
              /\ Verified(r, cache'[k].url)]_vars

C3_Witness ==
  \E r1, r2 \in Requests :
    /\ r1 # r2
    /\ Done(r1) /\ req[r1].stored /\ ~req[r1].url_known
    /\ Done(r2) /\ req[r2].stored /\ req[r2].url_known /\ ~req[r2].hit
    /\ cache[KeyOf(r2)] = SetEntry(req[r2].url)

\* C4: in Case A (urls.original present) the URL fetched, and then cached,
\* for index n with 1 <= n <= entry_count - 1 is the original URL with
\* {work_id}_p0 replaced by {work_id}_p{n-1}
C4_CaseAFetchesDerivedPage ==
  \A r \in Requests :
    (/\ req[r].url_known /\ req[r].update_cache
     /\ 1 <= req[r].index /\ req[r].index <= req[r].num_entries - 1)
      => /\ req[r].url = ReplacePage(req[r].link, req[r].work_id, req[r].index)
         /\ req[r].stored
              => cache[KeyOf(r)] =
                   SetEntry(ReplacePage(req[r].link, req[r].work_id, req[r].index))

\* C5: when exactly one of the three probes answers OK (and its body is read),
\* the request returns that response's bytes and its set command carries the
\* URL with that extension, wherever the extension stands in the array and in
\* whatever order the probes completed
C5_ProbeLaw ==
  \A r \in Requests : \A e \in ExtSet :
    (Probing(r) /\ JoinReady(req[r].probes) /\ OkExts(r) = {e} /\ req[r].body)
      => /\ req[r].resolved = WithExtension(req[r].url, e)
         /\ "set" \in req[r].ops
         /\ Done(r) => /\ req[r].result.kind = "Ok"
                       /\ req[r].result.data = WithExtension(req[r].url, e)
                       /\ req[r].stored
                            => cache[KeyOf(r)] = SetEntry(WithExtension(req[r].url, e))

C5_Witness ==
  \E r \in Requests :
    /\ Probing(r) /\ Done(r) /\ OkExts(r) = {"gif"}
    /\ req[r].index > 1
    /\ req[r].result.kind = "Ok" /\ req[r].result.data.ext = "gif"
    /\ req[r].stored /\ cache[KeyOf(r)].url.ext = "gif"

FirstInArrayOrder(r) ==
  IF req[r].probes["jpg"] = "ok" THEN "jpg"
  ELSE IF req[r].probes["png"] = "ok" THEN "png"
  ELSE "gif"

Served(r) ==
  /\ req[r].link # NoUrl
  /\ req[r].body
  /\ IF req[r].url_known THEN req[r].status = "OK" ELSE OkExts(r) # {}

\* C7: a request that obtained metadata with entry count e fails with
\* TooHighQuery{e - 1} when index = e, and succeeds when index = e - 1 >= 1,
\* the metadata carries a URL of the work and the upstream serves the asset
C7_UpperBound ==
  \A r \in Requests :
    (Done(r) /\ req[r].num_entries >= 0)
      => /\ req[r].index = req[r].num_entries
              => req[r].result =
                   [kind |-> "TooHighQuery", max |-> req[r].num_entries - 1,
                    data |-> NoUrl]
         /\ (req[r].index = req[r].num_entries - 1 /\ req[r].index >= 1 /\ Served(r))
              => req[r].result.kind = "Ok"

C7_Witness ==
  \E r \in Requests :
    /\ Done(r) /\ req[r].num_entries = MaxIndex + 1 /\ req[r].index = MaxIndex
    /\ req[r].result.kind = "Ok"

\* C8 as stated: every request with index = 0 fails with ZeroQuery, no cache
\* lookup, metadata fetch or asset fetch issued
C8_ZeroAlwaysZeroQuery ==
  \A r \in Requests :
    (Done(r) /\ Parsed(r) /\ req[r].index = 0)
      => req[r].result.kind = "ZeroQuery" /\ req[r].ops = {}

\* C8, amended: a request with index = 0 issues no cache lookup, metadata
\* fetch or asset fetch; it fails with ZeroQuery when the pool handed out a
\* connection and with Internal when it did not
C8_ZeroQueryOnceConnected ==
  \A r \in Requests :
    (Parsed(r) /\ req[r].index = 0)
      => /\ req[r].ops = {}
         /\ req[r].pc \in {"pool", "done"}
         /\ Done(r)
              => req[r].result.kind = IF req[r].conn THEN "ZeroQuery" ELSE "Internal"

C8_Witness ==
  \E r \in Requests :
    /\ Done(r) /\ Parsed(r) /\ req[r].index = 0 /\ req[r].conn
    /\ req[r].result.kind = "ZeroQuery"

\* C9 as stated: on every path an asset fetch is issued only after the index
\* was checked against the entry count of the work
C9_FetchOnlyAfterRangeCheck ==
  \A r \in Requests :
    "asset" \in req[r].ops
      => /\ req[r].num_entries >= 0
         /\ 1 <= req[r].index
         /\ req[r].index <= req[r].num_entries - 1

\* C9, amended: an asset fetch is issued only for index >= 1; on the fresh
\* path only after index <= num_entries - 1 held in 16-bit unsigned arithmetic;
\* on the cache-hit path no entry count is consulted
C9_FetchOnlyAfterCodeCheck ==
  \A r \in Requests :
    "asset" \in req[r].ops
      => /\ 1 <= req[r].index
         /\ IF req[r].hit
              THEN req[r].num_entries = -1 /\ "meta" \notin req[r].ops
              ELSE /\ req[r].num_entries >= 0
                   /\ req[r].index <= (req[r].num_entries - 1) % U16Mod

C9_Witness ==
  \E r \in Requests :
    /\ req[r].hit /\ "asset" \in req[r].ops /\ Done(r)
    /\ req[r].result.kind = "Ok"

\* C10 as stated: after a fresh resolution succeeded, the cache holds under
\* the key the URL whose bytes were returned
C10_FreshSuccessIsCached ==
  \A r \in Requests :
    (Done(r) /\ req[r].result.kind = "Ok" /\ ~req[r].hit)
      => cache[KeyOf(r)] = SetEntry(req[r].result.data)

\* C10, amended: a set command that succeeds leaves under the key the URL
\* whose bytes the request returns; an entry changes only by the set or unlink
\* of a request for its key; a get that finds the entry makes the request fetch
\* the URL of the entry, and such a request never fetches the metadata
C10_RoundTrip ==
  [][\A r \in Requests :
       /\ (req[r].pc = "set" /\ req'[r].pc = "done" /\ req'[r].stored)
            => /\ req'[r].result.kind = "Ok"
               /\ cache'[KeyOf(r)] = SetEntry(req'[r].result.data)
       /\ (req[r].pc = "get" /\ req'[r].hit)
            => /\ cache[KeyOf(r)] # NoEntry
               /\ req'[r].pc = "known"
               /\ req'[r].url = cache[KeyOf(r)].url
       /\ req'[r].hit => "meta" \notin req'[r].ops
       /\ \A k \in Keys :
            cache'[k] # cache[k]
              => \E w \in Requests :
                   /\ KeyOf(w) = k
                   /\ req'[w].pc = "done"
                   /\ req'[w].stored \/ "unlink" \in req'[w].ops]_vars

C10_Witness ==
  \E r1, r2 \in Requests :
    /\ Done(r1) /\ ~req[r1].hit /\ req[r1].stored
    /\ KeyOf(r2) = KeyOf(r1)
    /\ Done(r2) /\ req[r2].hit /\ req[r2].result.kind = "Ok"
    /\ req[r2].result.data = req[r1].result.data
    /\ "meta" \notin req[r2].ops

\* C11: the Content-Type of every successful request is the one guessed from
\* the extension of the resolved URL, the URL that was fetched with status OK
\* (in Case B the extension of the winning probe)
C11_ContentTypeOfResolvedUrl ==
  \A r \in Requests :
    (Done(r) /\ req[r].result.kind = "Ok")
      => req[r].mime = MimeGuess(req[r].result.data)

\* C12: once the connection is held, a failed cache command never changes the
\* outcome. A failed get leaves the request exactly where a miss leaves it
\* (every later step reads nothing of the failure, so the request ends as it
\* would with an empty, working cache); a failed set or unlink leaves the cache
\* as it was and the result as it would have been; a request holding the
\* connection ends with Internal only at the answer of an upstream fetch
C12_CacheFailuresSwallowed ==
  [][\A r \in Requests :
       /\ (req[r].pc = "get" /\ "get" \in req'[r].failed)
            => /\ req'[r] = [req[r] EXCEPT !.pc = "meta", !.ops = @ \cup {"meta"},
                                           !.failed = @ \cup {"get"}]
               /\ cache' = cache
       /\ (req[r].pc = "set" /\ req'[r].pc = "done")
            => /\ req'[r].result = [kind |-> "Ok", max |-> 0, data |-> req[r].resolved]
               /\ "set" \in req'[r].failed => cache' = cache
       /\ ("unlink" \in req'[r].failed /\ "unlink" \notin req[r].failed)
            => cache' = cache /\ req'[r].result.kind = "Internal"
       /\ (req[r].pc # "done" /\ req'[r].pc = "done" /\ req[r].conn
             /\ req'[r].result.kind = "Internal")
            => /\ req[r].pc \in {"known", "bytes", "meta"}
               /\ req'[r].failed \subseteq req[r].failed \cup {"unlink"}]_vars

C12_Witness ==
  \E r \in Requests :
    /\ Done(r) /\ req[r].failed = {"get", "set"}
    /\ cache[KeyOf(r)] # NoEntry
    /\ req[r].result.kind = "Ok"

\* the metadata fetch of the request failed below the level of a document:
\* the request could not be sent, or the answer is not a JSON document
TransportFailure(r) == req[r].meta.kind \in {"send_err", "malformed"}

\* C13: every transport-level failure of the metadata fetch (connection error
\* when sending, unparseable response, malformed JSON) ends the request with
\* ServerUnreachable
C13_TransportFailureUnreachable ==
  \A r \in Requests :
    (Done(r) /\ TransportFailure(r)) => req[r].result.kind = "ServerUnreachable"

\* C14: for every metadata document, an error flag set to true, or a body
\* that does not match the success shape, whatever other shape it has, ends
\* the request with ArtworkUnavailable
C14_NotSuccessShapeUnavailable ==
  \A r \in Requests :
    (/\ Done(r)
     /\ req[r].meta.kind = "json"
     /\ req[r].meta.error \/ req[r].meta.body # "workinfo")
      => req[r].result.kind = "ArtworkUnavailable"

\* C15: every cache entry has the key {work_id}_{index} of the request that
\* wrote it, a URL of that work as its value, and a time-to-live of
\* 31,536,000 seconds
C15_EntriesExpire ==
  \A k \in Keys :
    cache[k] # NoEntry
      => /\ cache[k].url.id = k[1]
         /\ cache[k].ttl = 31536000

\* the orchestrations in flight: handlers of source and of info
InFlight == mw["source"].running + mw["info"].running

\* C16: in every reachable state the number of source and info handlers in
\* flight at the same time is at most the configured concurrency limit
C16_InFlightBounded == InFlight <= ConcurrencyLimit

\* C17: an orchestration that exceeds the budget is reported with a signal
\* distinct from every orchestrator error kind and from the "too many
\* requests" signal
C17_TimeoutSignalDistinct ==
  signal.cause = "timeout"
    => /\ \A kind \in AppErrors : signal.status # StatusCode(kind)
       /\ signal.status # TooManyRequests

\* C18: for every max a TooHighQuery can carry, the rendered message states
\* exactly max as the number of images, with the singular when max = 1 and
\* the plural otherwise (max = 0 included)
C18_MessageStatesMax ==
  \A r \in Requests :
    (Done(r) /\ req[r].result.kind = "TooHighQuery")
      => /\ req[r].message.images = req[r].result.max
         /\ req[r].message.noun = IF req[r].result.max = 1 THEN "image" ELSE "images"

\* the verify-fetch of a cached URL was answered 404
NotFoundVerify(rec) == rec.hit /\ rec.status = "NOT_FOUND"

\* C19: a step of a source request for (work_id, index) changes no key but
\* {work_id}_{index}; it sets the key only at the end of a fresh resolution
\* that returns success; it deletes the key only on the not-found verify of a
\* cached URL; a request ending with any other error, and a cache hit whose
\* verify-fetch succeeds, change nothing
C19_CacheFrame ==
  [][\A r \in Requests :
       req'[r] # req[r]
         => /\ \A k \in Keys : k # KeyOf(r) => cache'[k] = cache[k]
            /\ (cache' # cache /\ cache'[KeyOf(r)] # NoEntry)
                 => /\ ~req[r].hit /\ "meta" \in req[r].ops
                    /\ req[r].pc = "set" /\ req'[r].pc = "done"
                    /\ req'[r].result.kind = "Ok"
            /\ (cache' # cache /\ cache'[KeyOf(r)] = NoEntry)
                 => NotFoundVerify(req'[r])
            /\ (req'[r].pc = "done" /\ req'[r].result.kind # "Ok"
                  /\ ~NotFoundVerify(req'[r]))
                 => cache' = cache
            /\ (req[r].hit /\ req[r].status = "OK") => cache' = cache]_vars

C19_Witness ==
  \E r \in Requests : \E k \in Keys :
    /\ Done(r) /\ ~req[r].hit /\ req[r].stored
    /\ k # KeyOf(r)
    /\ cache[k] # NoEntry
    /\ cache[KeyOf(r)] = SetEntry(req[r].result.data)

\* C20: for every entry count the upstream reports, num_entries - 1 does not
\* underflow: the subtraction neither panics nor wraps to 65535, and with a
\* count of 0 no index >= 1 passes the upper-bound check
C20_NoUnderflow ==
  \A r \in Requests :
    req[r].num_entries >= 0
      => /\ req[r].result.kind # "Panic"
         /\ Sub16(req[r].num_entries, 1) = req[r].num_entries - 1
         /\ req[r].num_entries = 0 => "asset" \notin req[r].ops

====
